---- MODULE Spec2Model ----
(***************************************************************************)
(* TileDbArraySeed (src/src/tiledbarray/TileDBArraySeed.py): a descriptor   *)
(* of one attribute of a TileDB array, and the extraction of a subset of    *)
(* it through the delayedarray generics extract_dense_array and             *)
(* extract_sparse_array.                                                    *)
(*                                                                          *)
(* The store (tiledb) is the external collaborator: its schema and its      *)
(* multi_index read follow the store contracts of the specification; all    *)
(* the rest is the Python of the source, statement by statement.            *)
(***************************************************************************)
EXTENDS Integers, Sequences, FiniteSets, TLC

VARIABLES
    store,      \* the backing array: its schema (fixed, the store is read-only)
    x,          \* the TileDbArraySeed the caller holds (NoSeed before construction)
    ctor,       \* the last constructor call: its arguments and how it ended
    handles,    \* store handles currently open in the process
    last,       \* the last framework call: its arguments and its outcome
    rep,        \* how many times the last extraction was repeated as is
    grid        \* the last chunk_grid result

vars == <<store, x, ctor, handles, last, rep, grid>>

-----------------------------------------------------------------------------
(* Bounds of the model *)

MaxExtent == 2      \* extents of a dimension: 1..MaxExtent
MaxSel == 2         \* an explicit index sequence holds at most MaxSel indices
MaxAttrs == 2       \* a schema declares 1..MaxAttrs attributes
MaxRepeat == 1      \* an extraction is repeated at most MaxRepeat times

(* Program constants *)

NDim == 2           \* _extract_array reads x._shape[0] and x._shape[1]
CostFactor == 20    \* chunk_grid's cost_factor

StorePath == "store.tdb"
Paths == {StorePath, "nowhere.tdb"}

AttrNameTable == <<"a1", "a2", "a3", "a4">>
AttrTypeTable == <<"float32", "int32", "float64", "uint8">>
DimNameTable == <<"d1", "d2">>
MissingName == "zz"

-----------------------------------------------------------------------------
(* The store: schema and cells *)

\* A dimension has a name and a tile extent; an attribute has a name and an
\* element type. The source also reads .tile of an attribute object: whether the
\* store's attribute objects have one is the store library's business, so both
\* are modelled (hasTile), and the value read is not a dimension's tile extent.
MkSchema(sp, shp, n, t) ==
    [sparse |-> sp,
     shape  |-> shp,
     dims   |-> [d \in 1..NDim |-> [name |-> DimNameTable[d], tile |-> shp[d]]],
     attrs  |-> [k \in 1..n |->
                    [name |-> AttrNameTable[k], dtype |-> AttrTypeTable[k],
                     hasTile |-> t, tile |-> 0]]]

Schemas ==
    {MkSchema(sp, shp, n, t) :
        sp \in BOOLEAN, shp \in [1..NDim -> 1..MaxExtent], n \in 1..MaxAttrs,
        t \in BOOLEAN}

\* Every cell of the domain, as <<i, j>> with 0-based coordinates.
Cells(sch) == {<<i, j>> : i \in 0..(sch.shape[1] - 1), j \in 0..(sch.shape[2] - 1)}

\* The populated cells: all of them in a dense array, a checkerboard in a sparse one.
Populated(sch) ==
    IF sch.sparse THEN {c \in Cells(sch) : (c[1] + c[2]) % 2 = 0} ELSE Cells(sch)

\* The value attribute number k stores at cell c (never zero).
CellValue(k, c) == k * 100 + c[1] * 10 + c[2] + 1

InSeq(v, s) == \E i \in 1..Len(s) : s[i] = v

IndexOf(v, s) == CHOOSE i \in 1..Len(s) : s[i] = v

-----------------------------------------------------------------------------
(* TileDbArraySeed.__init__ *)

NoSeed ==
    [built |-> FALSE, path |-> "", name |-> "", is_sparse |-> FALSE, shape |-> <<>>,
     dtype |-> "", dimnames |-> <<>>, tiles |-> <<>>]

\* _all_attr: the names of _schema.attr(i) for i in range(_schema.nattr)
AllAttr(sch) == [i \in 1..Len(sch.attrs) |-> sch.attrs[i].name]

NameNotInSchemaNever(name, sch) == FALSE

\* if self._name not in _all_attr
NameNotInSchema(name, sch) == ~InSeq(name, AllAttr(sch))

\* for i in range(_schema.domain.ndim): _dim = _schema.attr(i); _dim.name; _dim.tile
\* The store raises when the schema has no attribute number i, and the read of
\* .tile raises AttributeError when the attribute object has none. The status of
\* the loop is that of the first iteration that raises.
DimLoopStatus(sch) ==
    LET bad == {i \in 1..Len(sch.dims) : i > Len(sch.attrs) \/ ~sch.attrs[i].hasTile} IN
    IF bad = {} THEN "ok"
    ELSE LET i == CHOOSE k \in bad : \A m \in bad : k <= m IN
         IF i > Len(sch.attrs) THEN "TileDBError" ELSE "AttributeError"

\* The constructor: how it ends, the argument of its message, and self.
TileDbArraySeed(path, name) ==
    IF path # StorePath
    THEN [status |-> "TileDBError", msgArg |-> path, self |-> NoSeed]
    ELSE LET sch == store IN
         IF NameNotInSchema(name, sch)
         THEN [status |-> "ValueError", msgArg |-> name, self |-> NoSeed]
         ELSE IF ~InSeq(name, AllAttr(sch))
         THEN [status |-> "TileDBError", msgArg |-> name, self |-> NoSeed]
         ELSE IF DimLoopStatus(sch) # "ok"
         THEN [status |-> DimLoopStatus(sch), msgArg |-> "", self |-> NoSeed]
         ELSE [status |-> "ok", msgArg |-> "",
               self |-> [built     |-> TRUE,
                         path      |-> path,
                         name      |-> name,
                         is_sparse |-> sch.sparse,
                         shape     |-> sch.shape,
                         dtype     |-> sch.attrs[IndexOf(name, AllAttr(sch))].dtype,
                         dimnames  |-> [i \in 1..Len(sch.dims) |-> sch.attrs[i].name],
                         tiles     |-> [i \in 1..Len(sch.dims) |-> sch.attrs[i].tile]]]

NoCtor == [called |-> FALSE, path |-> "", name |-> "", status |-> "none", msgArg |-> ""]

NoCall ==
    [op |-> "none", subset |-> <<>>, query |-> <<>>, status |-> "none",
     declared |-> <<>>, bufShape |-> <<>>, buf |-> <<>>,
     opened |-> 0, queries |-> 0, closed |-> 0]

NoGrid == [set |-> FALSE, tiles |-> <<>>, shape |-> <<>>, cost |-> 0]

Idle == last.op = "none" /\ ~grid.set

Construct(path, name) ==
    /\ ~ctor.called
    /\ LET r == TileDbArraySeed(path, name) IN
       /\ ctor' = [called |-> TRUE, path |-> path, name |-> name,
                   status |-> r.status, msgArg |-> r.msgArg]
       /\ x' = IF r.status = "ok" THEN r.self ELSE x
    /\ UNCHANGED <<store, handles, last, rep, grid>>

-----------------------------------------------------------------------------
(* Subsets: a tuple of one or two per-dimension selections *)

\* slice(None), slice(n) and an explicit index sequence
SliceNone == [kind |-> "slice", idx |-> <<>>, stop |-> -1]
Slice(n) == [kind |-> "slice", idx |-> <<>>, stop |-> n]
SeqSel(s) == [kind |-> "seq", idx |-> s, stop |-> -1]

Injective(s) == \A i, j \in 1..Len(s) : s[i] = s[j] => i = j

\* Explicit index sequences: in any order, without repeats, possibly out of range.
IdxSeqs ==
    UNION {{s \in [1..n -> 0..(MaxExtent - 1)] : Injective(s)} : n \in 0..MaxSel}

Selections == {SliceNone} \cup {SeqSel(s) : s \in IdxSeqs}

Subsets == {<<a>> : a \in Selections} \cup {<<a, b>> : a, b \in Selections}

Range(n) == [i \in 1..n |-> i - 1]

\* len(): a slice object has none (TypeError)
HasLen(sel) == sel.kind = "seq"
PyLen(sel) == Len(sel.idx)

-----------------------------------------------------------------------------
(* The store's read: mat.multi_index[subset] *)

\* The indices a selection asks of a dimension of the given extent; dimensions
\* the subset leaves out are read whole.
Asked(subset, d, extent) ==
    IF d > Len(subset) \/ subset[d].kind = "slice" THEN Range(extent) ELSE subset[d].idx

QueryRaises(sch, subset) ==
    \/ Len(subset) > Len(sch.dims)
    \/ \E d \in 1..Len(subset) :
          \E i \in 1..Len(subset[d].idx) : subset[d].idx[i] >= sch.shape[d]

\* The cells of the selection, row-major in the order asked.
CrossProduct(rows, cols) ==
    [n \in 1..(Len(rows) * Len(cols)) |->
        <<rows[((n - 1) \div Len(cols)) + 1], cols[((n - 1) % Len(cols)) + 1]>>]

\* The coordinates of the cells the read returns: every cell asked of a dense
\* array, the populated ones of a sparse array.
MultiIndex(sch, subset) ==
    LET asked == CrossProduct(Asked(subset, 1, sch.shape[1]), Asked(subset, 2, sch.shape[2]))
        pop == Populated(sch)
    IN SelectSeq(asked, LAMBDA c : c \in pop)

\* _data[key]: the value column of an attribute, the coordinate column of a dimension
DataCol(sch, data, key) ==
    IF InSeq(key, AllAttr(sch))
    THEN [n \in 1..Len(data) |-> CellValue(IndexOf(key, AllAttr(sch)), data[n])]
    ELSE [n \in 1..Len(data) |->
            data[n][IndexOf(key, [d \in 1..Len(sch.dims) |-> sch.dims[d].name])]]

-----------------------------------------------------------------------------
(* _extract_array *)

NoArray == [shape |-> <<>>, data |-> <<>>]

\* numpy.zeros((r, c))
Zeros(r, c) == [shape |-> <<r, c>>, data |-> [n \in 1..(r * c) |-> 0]]

\* numpy.array(column): one axis
Array1(col) == [shape |-> <<Len(col)>>, data |-> col]

\* The handles left open when the with block is left, normally or by a raise.
WithExitKeepsOnRaise(h, raised) == IF raised THEN h ELSE h - 1

WithExit(h, raised) == h - 1

\* item[1] of an item of a column: the items are scalars, which cannot be indexed.
ScalarHasItems(v) == FALSE

\* for idx, ival in enumerate(_data[x._name]):
\*     output[_data[x._dimnames[0]][idx], _data[x._dimnames[0]][idx][1]] = ival
\* The second index of the target takes [1] of a scalar: the first iteration raises.
ScatterRaises(seed, sch, data) ==
    \E idx \in 1..Len(DataCol(sch, data, seed.name)) :
        ~ScalarHasItems(DataCol(sch, data, seed.dimnames[1])[idx])

\* What the call returns or raises, and what it did to the store on the way.
\* ret is "tuple" for (extents, array) and "ndarray" for the bare accumulator.
ExtractArray(seed, sch, subset) ==
    LET first == IF subset[1] = SliceNone THEN Slice(seed.shape[1]) ELSE subset[1]
        second == IF Len(subset) > 1
                  THEN IF subset[2] = SliceNone THEN Slice(seed.shape[2]) ELSE subset[2]
                  ELSE Slice(seed.shape[2])
        base == [raised |-> "", ret |-> "none", extents |-> <<>>, arr |-> NoArray,
                 query |-> subset, opened |-> 1, queries |-> 1, closed |-> 0]
        done(r) == [r EXCEPT !.closed = r.opened - WithExit(r.opened, r.raised # "")]
    IN  IF QueryRaises(sch, subset)
        THEN done([base EXCEPT !.raised = "QueryError"])
        ELSE LET data == MultiIndex(sch, subset)
                 vals == DataCol(sch, data, seed.name)
             IN  IF ~(HasLen(first) /\ HasLen(second))
                 THEN done([base EXCEPT !.raised = "TypeError"])
                 ELSE IF seed.is_sparse
                 THEN IF ScatterRaises(seed, sch, data)
                      THEN done([base EXCEPT !.raised = "IndexError"])
                      ELSE done([base EXCEPT !.ret = "ndarray",
                                             !.arr = Zeros(PyLen(first), PyLen(second))])
                 ELSE done([base EXCEPT !.ret = "tuple",
                                        !.extents = <<PyLen(first), PyLen(second)>>,
                                        !.arr = Array1(vals)])

\* a, b = value: a 2-tuple gives its items, an array its rows when it has two
UnpackRaises(r) == r.ret = "ndarray" /\ r.arr.shape[1] # 2

ArrayRow(arr, i) ==
    [shape |-> <<arr.shape[2]>>,
     data  |-> [n \in 1..arr.shape[2] |-> arr.data[(i - 1) * arr.shape[2] + n]]]

Unpacked(r, i) ==
    IF r.ret = "tuple"
    THEN IF i = 1 THEN [shape |-> <<Len(r.extents)>>, data |-> r.extents] ELSE r.arr
    ELSE ArrayRow(r.arr, i)

ExtractOps == {"extract_dense_array", "extract_sparse_array"}

\* extract_dense_array_TileDbArraySeed and extract_sparse_array_TileDbArraySeed:
\* the record of the call. A dense result is the array returned (declared is its
\* shape); a sparse result is SparseNdarray(shape = declared, contents = buf).
ExtractCall(seed, sch, op, subset) ==
    LET r == ExtractArray(seed, sch, subset)
        call == [op |-> op, subset |-> subset, query |-> r.query, status |-> "ok",
                 declared |-> <<>>, bufShape |-> <<>>, buf |-> <<>>,
                 opened |-> r.opened, queries |-> r.queries, closed |-> r.closed]
    IN  IF r.raised # "" THEN [call EXCEPT !.status = r.raised]
        ELSE IF UnpackRaises(r) THEN [call EXCEPT !.status = "ValueError"]
        ELSE IF op = "extract_dense_array"
        THEN [call EXCEPT !.declared = Unpacked(r, 2).shape,
                          !.bufShape = Unpacked(r, 2).shape,
                          !.buf = Unpacked(r, 2).data]
        ELSE [call EXCEPT !.declared = Unpacked(r, 1).data,
                          !.bufShape = Unpacked(r, 2).shape,
                          !.buf = Unpacked(r, 2).data]

\* The seed an extraction leaves behind: the code assigns to no field of x.
ExtractWrites(seed, call, h) ==
    /\ last' = call
    /\ handles' = h + call.opened - call.closed
    /\ x' = seed
    /\ UNCHANGED <<store, ctor, grid>>

ExtractCachingShape(op, subset) ==
    /\ Idle /\ x.built
    /\ rep' = 0
    /\ LET call == ExtractCall(x, store, op, subset) IN
       ExtractWrites(IF call.status = "ok" THEN [x EXCEPT !.shape = call.bufShape] ELSE x,
                     call, handles)

Extract(op, subset) ==
    /\ Idle /\ x.built
    /\ rep' = 0
    /\ ExtractWrites(x, ExtractCall(x, store, op, subset), handles)

\* The same extraction once more: same entry point, same subset, same seed.
Repeat ==
    /\ last.op \in ExtractOps
    /\ rep < MaxRepeat
    /\ rep' = rep + 1
    /\ ExtractWrites(x, ExtractCall(x, store, last.op, last.subset), handles)

\* The caller drops the result.
Done ==
    /\ ~Idle
    /\ last' = NoCall
    /\ grid' = NoGrid
    /\ rep' = 0
    /\ UNCHANGED <<store, x, ctor, handles>>

\* chunk_grid_TileDbArraySeed: chunk_shape_to_grid(x._tiles, x._shape, cost_factor=20)
chunk_grid ==
    /\ Idle /\ x.built
    /\ grid' = [set |-> TRUE, tiles |-> x.tiles, shape |-> x.shape, cost |-> CostFactor]
    /\ UNCHANGED <<store, x, ctor, handles, last, rep>>

-----------------------------------------------------------------------------
Init ==
    /\ store \in Schemas
    /\ x = NoSeed
    /\ ctor = NoCtor
    /\ handles = 0
    /\ last = NoCall
    /\ rep = 0
    /\ grid = NoGrid

Next ==
    \/ \E p \in Paths, n \in {AttrNameTable[k] : k \in 1..MaxAttrs} \cup {MissingName} :
          Construct(p, n)
    \/ \E op \in ExtractOps, s \in Subsets : Extract(op, s)
    \/ Repeat
    \/ Done
    \/ chunk_grid

Spec == Init /\ [][Next]_vars
-----------------------------------------------------------------------------
(* What the claims speak of *)

IsExtract == x.built /\ last.op \in ExtractOps

\* The indices the caller selects along dimension d (0-based), per the subset
\* convention: slice(None) and an omitted trailing entry select everything.
Wanted(subset, d) ==
    IF d > Len(subset) \/ subset[d] = SliceNone THEN Range(store.shape[d]) ELSE subset[d].idx

InRange(subset) ==
    \A d \in 1..Len(subset) :
        \A i \in 1..Len(subset[d].idx) : subset[d].idx[i] < store.shape[d]

\* The value the result should hold at output position (i, j), 1-based.
ExpectedAt(subset, i, j) ==
    LET c == <<Wanted(subset, 1)[i], Wanted(subset, 2)[j]>> IN
    IF c \in Populated(store)
    THEN CellValue(IndexOf(x.name, AllAttr(store)), c)
    ELSE 0

\* The call returned a rows x cols buffer holding the selected cells.
Rectangular(call) ==
    LET r == Len(Wanted(call.subset, 1))
        c == Len(Wanted(call.subset, 2))
    IN  /\ call.status = "ok"
        /\ call.bufShape = <<r, c>>
        /\ Len(call.buf) = r * c
        /\ \A i \in 1..r, j \in 1..c :
              call.buf[(i - 1) * c + j] = ExpectedAt(call.subset, i, j)

\* C1: sparse extraction of an in-range subset of a sparse seed declares the
\* shape (selected rows, selected columns) and holds exactly the stored cells
\* of the subset at their output-local positions, zero elsewhere.
C1_SparseExtractionExact ==
    (IsExtract /\ x.is_sparse /\ last.op = "extract_sparse_array" /\ InRange(last.subset))
        => /\ Rectangular(last)
           /\ last.declared = <<Len(Wanted(last.subset, 1)), Len(Wanted(last.subset, 2))>>

\* C2: dense extraction of (slice(None), slice(None)) from a dense seed returns,
\* without error, a buffer of the descriptor's shape holding the full scan.
C2_DenseFullScan ==
    (IsExtract /\ ~x.is_sparse /\ last.op = "extract_dense_array"
        /\ last.subset = <<SliceNone, SliceNone>>)
        => /\ Rectangular(last)
           /\ last.bufShape = x.shape

\* C3: dense extraction of explicit (rows, cols) from a dense seed returns a
\* len(rows) x len(cols) buffer whose element (i, j) is the value stored at
\* (rows[i], cols[j]).
C3_DenseExplicitRect ==
    (IsExtract /\ ~x.is_sparse /\ last.op = "extract_dense_array"
        /\ Len(last.subset) = 2 /\ last.subset[1].kind = "seq" /\ last.subset[2].kind = "seq"
        /\ InRange(last.subset))
        => Rectangular(last)

\* C4: construction with an attribute name the schema does not declare ends in
\* the ValueError naming that attribute, and the caller gets no descriptor.
C4_MissingAttributeRejected ==
    (ctor.called /\ ctor.path = StorePath /\ ~InSeq(ctor.name, AllAttr(store)))
        => /\ ctor.status = "ValueError"
           /\ ctor.msgArg = ctor.name
           /\ x = NoSeed

C4_Witness ==
    /\ ctor.called /\ ctor.path = StorePath /\ ctor.name = MissingName
    /\ ctor.status = "ValueError"
    /\ Len(store.attrs) < Len(store.dims)

\* C5: construction with a valid path and a declared attribute returns a
\* descriptor whose shape, dtype and sparsity are the schema's, whatever the
\* number of attributes.
C5_ValidConstructionReportsSchema ==
    (ctor.called /\ ctor.path = StorePath /\ InSeq(ctor.name, AllAttr(store)))
        => /\ ctor.status = "ok"
           /\ x.built
           /\ x.shape = store.shape
           /\ x.is_sparse = store.sparse
           /\ x.dtype = store.attrs[IndexOf(ctor.name, AllAttr(store))].dtype

\* C6: a constructed descriptor's dimnames and tiles are the names and tile
\* extents of the schema's dimensions, in order, and chunk_grid reports them.
C6_DimensionMetadata ==
    x.built
        => /\ \A d \in 1..Len(store.dims) :
                /\ x.dimnames[d] = store.dims[d].name
                /\ x.tiles[d] = store.dims[d].tile
           /\ grid.set =>
                /\ grid.tiles = [d \in 1..Len(store.dims) |-> store.dims[d].tile]
                /\ grid.shape = store.shape

\* C7: an extraction whose subset holds an empty index sequence returns, without
\* error, an empty result whose extent along that dimension is zero.
C7_EmptySelection ==
    (IsExtract /\ InRange(last.subset))
        => \A d \in 1..Len(last.subset) :
              last.subset[d] = SeqSel(<<>>)
                 => /\ last.status = "ok"
                    /\ Len(last.buf) = 0
                    /\ Len(last.declared) >= d => last.declared[d] = 0

\* C8: extraction of the one-entry subset (rows,) succeeds, queries the store
\* with (rows, full range) and returns what extraction of (rows, full range of
\* dimension 1) returns, with extents (len(rows), shape[1]).
C8_OmittedTrailingDimension ==
    (IsExtract /\ Len(last.subset) = 1 /\ last.subset[1].kind = "seq" /\ InRange(last.subset))
        => LET full == <<last.subset[1], SeqSel(Range(x.shape[2]))>>
               ref == ExtractCall(x, store, last.op, full)
           IN  /\ last.status = "ok"
               /\ last.query = full
               /\ last.declared = ref.declared
               /\ last.bufShape = ref.bufShape
               /\ last.buf = ref.buf
               /\ Len(last.buf) = Len(last.subset[1].idx) * x.shape[2]

\* C9: every extraction call opens one handle, issues one query and has closed
\* the handle when it ends, by return or by raise; no handle stays open.
C9_HandlesReleased ==
    /\ handles = 0
    /\ last.op \in ExtractOps =>
          /\ last.opened = 1
          /\ last.queries = 1
          /\ last.closed = 1

C9_Witness ==
    /\ last.op \in ExtractOps
    /\ last.status = "IndexError"
    /\ last.closed = 1

\* C10: an extraction leaves every field of the descriptor and the store as
\* they were, and the same extraction made again ends the same way with the
\* same result.
C10_ExtractionIdempotent ==
    [][/\ (last'.op \in ExtractOps /\ (last' # last \/ rep' # rep))
            => (x' = x /\ store' = store)
       /\ (rep' = rep + 1)
            => /\ last'.status = last.status
               /\ last'.declared = last.declared
               /\ last'.bufShape = last.bufShape
               /\ last'.buf = last.buf]_vars

C10_Witness ==
    /\ rep = 1
    /\ last.status = "ok"
    /\ Len(last.buf) > 0
====
